---------------------------- MODULE Spec2Model ----------------------------
(***************************************************************************)
(* A model of the trading-trend-detector services.                         *)
(*                                                                         *)
(*   data-service/main.py    the Tick Broadcaster: the tick table, the     *)
(*                           replay cursor with gap filling                *)
(*                           (fetch_stock_data), the periodic worker and   *)
(*                           its fan-out, the subscribe handler.           *)
(*   data-processor/main.py  the Analytics Consumer: the feed connection   *)
(*                           loop, the fan-out of the snapshot, the        *)
(*                           subscribe handler.                            *)
(*                                                                         *)
(* Both services are single-threaded asyncio programs: a step of the model *)
(* is the code a task runs between two suspension points (await of a       *)
(* transport operation or of a sleep).  `await fetch_stock_data()` does    *)
(* not suspend: the coroutine holds no await of its own.                   *)
(***************************************************************************)
EXTENDS Integers, Sequences, FiniteSets, TLC

(***************************************************************************)
(* Bounds of the model.                                                    *)
(***************************************************************************)
\* rows of the CSV file read by load_stock_data
MaxRows == 3
\* calls of fetch_stock_data followed in the replay-cursor specification
MaxFetch == 5
\* connections a client opens to a service (each is a WebSocket of its own)
NumClients == 2
\* rounds of the periodic worker of the Tick Broadcaster
MaxRounds == 2
\* messages the Analytics Consumer receives from the feed
MaxMessages == 1
\* failures of the feed connection caused by the environment
MaxFailures == 2

(***************************************************************************)
(* Values.  A price cell is NaN (blank or non-numeric, after pd.to_numeric *)
(* with errors='coerce') or a number; a last known price is None or a      *)
(* number.                                                                 *)
(***************************************************************************)
NaN == [tag |-> "nan"]
None == [tag |-> "none"]
Num(v) == [tag |-> "num", val |-> v]
isna(p) == p.tag = "nan"

\* the tracked symbols
ALLOWED_STOCKS == {"A1EX2F.ETR", "ALORA.FR", "IJPHG.FR"}

\* the rows a CSV file of the model may hold: a row of one of two tracked
\* symbols, with a timestamp and a price cell, or a row of a symbol that is
\* not tracked (load_stock_data drops it whatever it holds, so one such row
\* stands for all of them)
CsvIds == {"A1EX2F.ETR", "ALORA.FR"}
CsvTimes == {1, 2, 3}
CsvCells == {NaN, Num(0), Num(5)}
CsvRows ==
    [id : CsvIds, time : CsvTimes, last : CsvCells]
        \cup {[id |-> "OTHER", time |-> 1, last |-> NaN]}

VARIABLES
    \* ---- data-service ----
    stock_data,         \* the loaded table: rows in 'Trading time' order
    current_index,      \* the replay cursor
    last_known_prices,  \* symbol -> None or the last valid price
    current_data,       \* the batch the last call of fetch_stock_data returned
    produced,           \* history: the trading_time of every batch produced
    active_connections, \* the list of subscribed WebSockets
    wpc,                \* stock_data_worker: where the task is suspended
    witer,              \* position of the list iterator of the fan-out loop
    wconn,              \* `connection` of the fan-out loop
    wres,               \* outcome of the send_text the worker is suspended on
    wbatch,             \* `data` of the round: the number of the batch produced
    rounds,             \* history: rounds the worker has started
    round_live,         \* history: the subscribers at the start of the round
    round_sent,         \* history: the subscribers the round has sent to
    round_failed,       \* history: the subscribers whose send failed in the round
    hpc,                \* websocket_endpoint, per connection: where it is
    hres,               \* outcome of the initial send_text of the handler
    alive,              \* per connection: the client's end is still open
    received,           \* per connection: the batch numbers sent to it, in order
    \* ---- data-processor ----
    feed_pc,            \* connect_to_broadcaster: where the task is suspended
    fan_todo,           \* connections of the copied set the fan-out has yet to visit
    fan_conn,           \* `connection` of the fan-out loop
    fan_res,            \* outcome of the send_json the task is suspended on
    latest_tick_data,   \* the snapshot
    stock_prices,       \* symbol -> price history
    previous_emas_38,   \* symbol -> stored EMA, period 38
    previous_emas_100,  \* symbol -> stored EMA, period 100
    previous_states,    \* symbol -> stored crossover relationship
    consumer_connections, \* active_connections of the data-processor (a set)
    sub_pc,             \* websocket_endpoint of the data-processor, per connection
    sub_res,            \* outcome of the initial send_json of the handler
    sub_alive,          \* per connection: the client's end is still open
    sub_received,       \* per connection: the numbers of the snapshots sent to it
    messages,           \* history: messages received from the feed
    failures,           \* history: passes through the except clause of the loop
    delays,             \* history: backoff delays completed
    attempts,           \* history: calls of websockets.connect
    feed_len,           \* environment: messages the feed delivers in this run
    engine_log,         \* history: the last call of calculate_statistics
    feed_msgs,          \* environment: the messages the feed can deliver
    stalled,            \* environment: data-service connections whose transport
                        \* never accepts a write
    sub_stalled,        \* environment: the same, for the data-processor
    query_log           \* history: the last query and what it returned

ds_vars == <<stock_data, current_index, last_known_prices, current_data, produced>>
worker_vars == <<wpc, witer, wconn, wres, wbatch, rounds, round_live, round_sent, round_failed>>
bc_vars == <<active_connections, worker_vars, hpc, hres, alive, received>>
engine_vars == <<stock_prices, previous_emas_38, previous_emas_100, previous_states, engine_log>>
feed_vars == <<feed_pc, fan_todo, fan_conn, fan_res, messages, failures, delays, attempts>>
sub_vars == <<sub_pc, sub_res, sub_alive>>
env_vars == <<feed_len, feed_msgs, stalled, sub_stalled>>
dp_vars == <<feed_vars, latest_tick_data, engine_vars, consumer_connections, sub_vars, sub_received,
            env_vars, query_log>>
vars == <<ds_vars, bc_vars, dp_vars>>

Clients == 1..NumClients
NoConn == 0

(***************************************************************************)
(* load_stock_data.  A CSV file is a sequence of rows; read_csv labels row *)
(* k of the file with k (0-based).  The rows of the tracked symbols are    *)
(* kept and sorted by 'Trading time'; every row keeps its label.  The sort *)
(* (sort_values, default kind) fixes no order among equal timestamps, so   *)
(* any arrangement sorted by timestamp is a possible table.                *)
(***************************************************************************)
CsvRow(k, r) == [label |-> k, id |-> r.id, time |-> r.time, last |-> r.last]

ReadCsv(csv) == [k \in 1..Len(csv) |-> CsvRow(k - 1, csv[k])]

IsAllowed(r) == r.id \in ALLOWED_STOCKS

FilterAllowed(table) == SelectSeq(table, IsAllowed)

SortedByTime(table) ==
    \A i \in 1..Len(table) : \A j \in 1..Len(table) :
        i < j => table[i].time <= table[j].time

Reindex(table, p) == [i \in 1..Len(table) |-> table[p[i]]]

SortValues(table) ==
    {t \in {Reindex(table, p) : p \in Permutations(1..Len(table))} : SortedByTime(t)}

LoadStockData(csv) == SortValues(FilterAllowed(ReadCsv(csv)))

LoadLastKnown == [s \in ALLOWED_STOCKS |-> None]

\* The files of the model.  Timestamps are only compared and the two symbols
\* are interchangeable, so it is enough to take the files whose tracked rows
\* use the timestamps 1..k without a gap and whose first tracked row is of
\* the first symbol.
TrackedTimes(csv) == {csv[k].time : k \in {j \in 1..Len(csv) : IsAllowed(csv[j])}}

FirstTracked(csv) == {k \in 1..Len(csv) : IsAllowed(csv[k]) /\ \A j \in 1..(k - 1) : ~IsAllowed(csv[j])}

Canonical(csv) ==
    /\ \A t \in TrackedTimes(csv) : t = 1 \/ (t - 1) \in TrackedTimes(csv)
    /\ \A k \in FirstTracked(csv) : csv[k].id = "A1EX2F.ETR"

CsvFiles == {csv \in UNION {[1..n -> CsvRows] : n \in 0..MaxRows} : Canonical(csv)}

(***************************************************************************)
(* fetch_stock_data, as operators of the state it reads.                   *)
(***************************************************************************)
\* DataFrame.iloc[i]: the row at 0-based position i
iloc(table, i) == table[i + 1]

\* iloc[current_index] on an empty table raises IndexError
FetchRaises(data) == Len(data) = 0

\* lines 65-68: reset the index at the end of the data
StartIndex(idx, data) == IF idx >= Len(data) THEN 0 ELSE idx

\* line 71
CurrentTime(idx, data) == iloc(data, StartIndex(idx, data)).time

\* line 72 and line 83: the rows of one symbol at the current timestamp
StockRow(data, t, s) ==
    LET Test(r) == r.time = t /\ r.id = s
    IN  SelectSeq(data, Test)

\* lines 86-93: the price the record branch ends with
RecordPrice(row, lkp) ==
    IF isna(row[1].last)
      THEN IF lkp # None THEN lkp ELSE NaN
      ELSE row[1].last

PriceType_AlwaysCurrent(row) == "current"

\* line 99
PriceType(row) == IF isna(row[1].last) THEN "last_known" ELSE "current"

HasEntry_NoNoneCheck(row, lkp) ==
    IF Len(row) > 0
      THEN ~isna(RecordPrice(row, lkp))
      ELSE TRUE

\* line 95 and line 103: whether the symbol gets an entry in the batch
HasEntry(row, lkp) ==
    IF Len(row) > 0
      THEN ~isna(RecordPrice(row, lkp))
      ELSE lkp # None

\* lines 96-100 and 104-108 (sec_type is carried along and not modelled)
Entry(row, lkp) ==
    IF Len(row) > 0
      THEN [price |-> RecordPrice(row, lkp), price_type |-> PriceType(row)]
      ELSE [price |-> lkp, price_type |-> "last_known"]

\* lines 75-109: the batch
Stocks(data, t, lkp) ==
    LET present == {s \in ALLOWED_STOCKS : HasEntry(StockRow(data, t, s), lkp[s])}
    IN  [s \in present |-> Entry(StockRow(data, t, s), lkp[s])]

CurrentData(idx, data, lkp) ==
    LET t == CurrentTime(idx, data)
    IN  [trading_time |-> t, stocks |-> Stocks(data, t, lkp)]

UpdatedLastKnown_KeepsFirst(row, lkp) ==
    IF Len(row) > 0 /\ ~isna(row[1].last) /\ lkp = None THEN row[1].last ELSE lkp

\* lines 87-93: the last known price after the call
UpdatedLastKnown(row, lkp) ==
    IF Len(row) > 0 /\ ~isna(row[1].last) THEN row[1].last ELSE lkp

NewLastKnown(idx, data, lkp) ==
    LET t == CurrentTime(idx, data)
    IN  [s \in ALLOWED_STOCKS |-> UpdatedLastKnown(StockRow(data, t, s), lkp[s])]

\* lines 111-116: the index labels of the rows after the current timestamp;
\* the first label is stored as the next position
NextIndex(idx, data) ==
    LET t == CurrentTime(idx, data)
        Later(r) == r.time > t
        next_time_idx == SelectSeq(data, Later)
    IN  IF Len(next_time_idx) > 0 THEN next_time_idx[1].label ELSE 0

\* the state change of one call that returns a batch
FetchStockData ==
    /\ ~FetchRaises(stock_data)
    /\ current_data' = CurrentData(current_index, stock_data, last_known_prices)
    /\ last_known_prices' = NewLastKnown(current_index, stock_data, last_known_prices)
    /\ current_index' = NextIndex(current_index, stock_data)
    /\ produced' = Append(produced, CurrentTime(current_index, stock_data))
    /\ UNCHANGED stock_data

\* the symbols of the feed
FeedSymbols == {"A1EX2F.ETR", "ALORA.FR"}

\* the data-processor after startup(): no subscriber, the first connection
\* attempt under way
FeedIdle ==
    /\ feed_pc = "connecting"
    /\ fan_todo = {}
    /\ fan_conn = NoConn
    /\ fan_res = "none"
    /\ latest_tick_data = [tag |-> "empty"]
    /\ consumer_connections = {}
    /\ sub_pc = [c \in Clients |-> "idle"]
    /\ sub_res = [c \in Clients |-> "none"]
    /\ sub_alive = [c \in Clients |-> TRUE]
    /\ sub_received = [c \in Clients |-> <<>>]
    /\ messages = 0
    /\ failures = 0
    /\ delays = 0
    /\ attempts = 1
    /\ query_log = [op |-> "none"]

\* no call of calculate_statistics yet
EngineLogIdle == [calls |-> 0, updates |-> 0, last_sign |-> "none"]

\* the dictionaries of the Indicator Engine at start: empty
EngineFresh ==
    /\ stock_prices = [s \in FeedSymbols |-> <<>>]
    /\ previous_emas_38 = [s \in FeedSymbols |-> [tag |-> "absent"]]
    /\ previous_emas_100 = [s \in FeedSymbols |-> [tag |-> "absent"]]
    /\ previous_states = [s \in FeedSymbols |-> "absent"]
    /\ engine_log = EngineLogIdle

\* the data-processor after startup(), with a feed of MaxMessages messages
ConsumerIdle ==
    /\ FeedIdle
    /\ EngineFresh
    /\ feed_len = MaxMessages

\* the service after startup(): no subscriber, the worker about to run its
\* first round
BroadcasterIdle ==
    /\ active_connections = <<>>
    /\ wpc = "sleep"
    /\ witer = 0
    /\ wconn = NoConn
    /\ wres = "none"
    /\ wbatch = 0
    /\ rounds = 0
    /\ round_live = {}
    /\ round_sent = {}
    /\ round_failed = {}
    /\ hpc = [c \in Clients |-> "idle"]
    /\ hres = [c \in Clients |-> "none"]
    /\ alive = [c \in Clients |-> TRUE]
    /\ received = [c \in Clients |-> <<>>]

(***************************************************************************)
(* The replay cursor on its own: every loaded table, fetch_stock_data      *)
(* called MaxFetch times.                                                  *)
(***************************************************************************)
CursorInit ==
    /\ \E csv \in CsvFiles : stock_data \in LoadStockData(csv)
    /\ current_index = 0
    /\ last_known_prices = LoadLastKnown
    /\ current_data = None
    /\ produced = <<>>
    /\ BroadcasterIdle
    /\ ConsumerIdle
    /\ feed_msgs = {}
    /\ stalled = {}
    /\ sub_stalled = {}

CursorFetch ==
    /\ Len(produced) < MaxFetch
    /\ FetchStockData
    /\ UNCHANGED bc_vars
    /\ UNCHANGED dp_vars

CursorNext == CursorFetch

CursorSpec == CursorInit /\ [][CursorNext]_vars


(***************************************************************************)
(* What the table says, read without the cursor: the records of a symbol   *)
(* at a timestamp, the price of its record there, and the most recent      *)
(* valid price among the first n batches produced.                         *)
(***************************************************************************)
Timestamps == {stock_data[i].time : i \in 1..Len(stock_data)}

MinOf(S) == CHOOSE x \in S : \A y \in S : x <= y

MaxOf(S) == CHOOSE x \in S : \A y \in S : x >= y

RecordsOf(s, t) ==
    {i \in 1..Len(stock_data) : stock_data[i].id = s /\ stock_data[i].time = t}

NativeAt(s, t) ==
    IF RecordsOf(s, t) = {} THEN NaN ELSE stock_data[MinOf(RecordsOf(s, t))].last

AllBlank(s, t) == \A i \in RecordsOf(s, t) : isna(stock_data[i].last)

NativeBatches(s, n) == {k \in 1..n : ~isna(NativeAt(s, produced[k]))}

LastNativeBefore(s, n) ==
    IF NativeBatches(s, n) = {}
      THEN None
      ELSE NativeAt(s, produced[MaxOf(NativeBatches(s, n))])

Calls == Len(produced)

(***************************************************************************)
(* C5.  Successive calls of fetch_stock_data return the batches of the     *)
(* distinct timestamps in ascending order, each once per cycle: the first  *)
(* call returns the smallest timestamp, the call after the greatest        *)
(* timestamp returns the smallest, and every other call returns the next   *)
(* greater timestamp of the table.                                         *)
(***************************************************************************)
C5_CursorWalksTimestampsInOrder ==
    \A k \in 1..Calls :
        IF k = 1 \/ produced[k - 1] = MaxOf(Timestamps)
          THEN produced[k] = MinOf(Timestamps)
          ELSE produced[k] = MinOf({t \in Timestamps : t > produced[k - 1]})

(***************************************************************************)
(* C6.  When a tracked symbol has no record, or only blank prices, at the  *)
(* timestamp of the batch and an earlier batch produced a valid price of   *)
(* it, the batch holds the symbol with the most recent such price, tagged  *)
(* last_known.                                                             *)
(***************************************************************************)
C6_GapFilledWithLastNativePrice ==
    Calls >= 1 =>
        \A s \in ALLOWED_STOCKS :
            (/\ AllBlank(s, produced[Calls])
             /\ LastNativeBefore(s, Calls - 1) # None)
            => /\ s \in DOMAIN current_data.stocks
               /\ current_data.stocks[s] =
                      [price |-> LastNativeBefore(s, Calls - 1),
                       price_type |-> "last_known"]

\* the example of the specification: present with price 5, then missing,
\* the batch of the later timestamp carries 5 tagged last_known; and a blank
\* record filled the same way
C6_Witness ==
    /\ Calls >= 2
    /\ \E s \in ALLOWED_STOCKS :
        /\ RecordsOf(s, produced[Calls]) = {}
        /\ LastNativeBefore(s, Calls - 1) = Num(5)
        /\ s \in DOMAIN current_data.stocks
    /\ produced[Calls] > produced[Calls - 1]

(***************************************************************************)
(* C7.  An entry of a batch is tagged current exactly when its price is    *)
(* the numeric price of the symbol's record at the batch's timestamp, and  *)
(* last_known exactly when the record is missing or blank and the price is *)
(* the last valid price of an earlier batch.                               *)
(***************************************************************************)
C7_TagTellsNativeFromSubstituted ==
    Calls >= 1 =>
        \A s \in DOMAIN current_data.stocks :
            LET e == current_data.stocks[s]
                native == NativeAt(s, produced[Calls])
            IN  /\ e.price_type \in {"current", "last_known"}
                /\ e.price_type = "current" <=>
                       (~isna(native) /\ e.price = native)
                /\ e.price_type = "last_known" <=>
                       (isna(native) /\ e.price = LastNativeBefore(s, Calls - 1))

\* a batch holding a native entry beside a substituted one
C7_Witness ==
    /\ Calls >= 2
    /\ \E s1, s2 \in DOMAIN current_data.stocks :
        /\ current_data.stocks[s1].price_type = "current"
        /\ current_data.stocks[s2].price_type = "last_known"

(***************************************************************************)
(* C8.  A tracked symbol with no valid price in any batch produced so far  *)
(* has no entry in the batch, whether it has no record at the timestamp or *)
(* a record with a blank price.                                            *)
(***************************************************************************)
C8_NeverSeenSymbolIsAbsent ==
    Calls >= 1 =>
        \A s \in ALLOWED_STOCKS :
            NativeBatches(s, Calls) = {} => s \notin DOMAIN current_data.stocks

\* both cases in one batch: a symbol with a blank record and a symbol with
\* no record, neither seen before, beside a symbol that has an entry
C8_Witness ==
    /\ Calls >= 1
    /\ \E s1, s2 \in ALLOWED_STOCKS :
        /\ RecordsOf(s1, produced[Calls]) # {}
        /\ NativeBatches(s1, Calls) = {}
        /\ RecordsOf(s2, produced[Calls]) = {}
        /\ NativeBatches(s2, Calls) = {}
    /\ DOMAIN current_data.stocks # {}


(***************************************************************************)
(* The Tick Broadcaster: stock_data_worker, broadcast_stock_data and the   *)
(* subscribe handler websocket_endpoint of data-service/main.py.           *)
(*                                                                         *)
(* A send_text is a suspension point.  The message is handed to the        *)
(* transport when send_text is called, so it is delivered (or refused,     *)
(* when the client's end is closed) at the call; the task resumes in a     *)
(* later step, and any other task may run in between.                      *)
(***************************************************************************)
InList(list, x) == \E i \in 1..Len(list) : list[i] = x

\* list.remove(x), for x in the list: the first occurrence is removed
ListRemove(list, x) ==
    LET k == MinOf({i \in 1..Len(list) : list[i] = x})
    IN  [i \in 1..(Len(list) - 1) |-> IF i < k THEN list[i] ELSE list[i + 1]]

\* send_text on a connection succeeds while the client's end is open
\* the outcome of await connection.send_text: it returns, it raises, or, for
\* a transport that accepts no write, it never completes
SendResult(c) ==
    IF c \in stalled THEN "blocked" ELSE IF alive[c] THEN "ok" ELSE "fail"

Deliver(c, b) ==
    IF alive[c] /\ c \notin stalled THEN [received EXCEPT ![c] = Append(@, b)] ELSE received

AfterWorkerError_Exits == "exited"

\* lines 145-147: the worker's except clause logs, sleeps and loops
AfterWorkerError == "error_sleep"

WorkerIdleLocals ==
    /\ witer' = 0
    /\ wconn' = NoConn
    /\ wres' = "none"
    /\ wbatch' = 0

\* lines 130-132: the list iterator of `for connection in active_connections`
\* at position i of the list as it is now: the next connection is sent the
\* message, or the loop (and the round) ends: lines 143-144
BroadcastLoop(i, conns, b, sent, failed) ==
    /\ active_connections' = conns
    /\ IF i < Len(conns)
         THEN LET c == conns[i + 1]
              IN  /\ wpc' = "sending"
                  /\ witer' = i + 1
                  /\ wconn' = c
                  /\ wres' = SendResult(c)
                  /\ wbatch' = b
                  /\ received' = Deliver(c, b)
                  /\ round_sent' = sent \cup {c}
                  /\ round_failed' = IF alive[c] THEN failed ELSE failed \cup {c}
         ELSE /\ wpc' = "sleep"
              /\ WorkerIdleLocals
              /\ round_sent' = sent
              /\ round_failed' = failed
              /\ UNCHANGED received

\* lines 139-147: the worker wakes up and runs a round up to its first
\* suspension point
WorkerRound ==
    /\ wpc \in {"sleep", "error_sleep"}
    /\ rounds < MaxRounds
    /\ rounds' = rounds + 1
    /\ round_live' = {active_connections[i] : i \in 1..Len(active_connections)}
    /\ IF FetchRaises(stock_data)
         THEN /\ wpc' = AfterWorkerError
              /\ WorkerIdleLocals
              /\ round_sent' = {}
              /\ round_failed' = {}
              /\ UNCHANGED <<ds_vars, active_connections, received>>
         ELSE /\ FetchStockData
              /\ BroadcastLoop(0, active_connections, Len(produced) + 1, {}, {})
    /\ UNCHANGED <<hpc, hres, alive>>
    /\ UNCHANGED dp_vars

\* lines 132-135: the send_text the worker was suspended on has completed
WorkerSendDone ==
    /\ wpc = "sending"
    /\ wres # "blocked"
    /\ IF wres = "ok"
         THEN BroadcastLoop(witer, active_connections, wbatch, round_sent, round_failed)
         ELSE IF InList(active_connections, wconn)
                THEN BroadcastLoop(witer, ListRemove(active_connections, wconn),
                                   wbatch, round_sent, round_failed)
                ELSE \* list.remove raises ValueError, out of broadcast_stock_data
                     /\ wpc' = AfterWorkerError
                     /\ WorkerIdleLocals
                     /\ UNCHANGED <<active_connections, received, round_sent, round_failed>>
    /\ UNCHANGED <<ds_vars, rounds, round_live, hpc, hres, alive>>
    /\ UNCHANGED dp_vars

\* lines 157-166: a client has connected; the handler accepts, subscribes the
\* connection, fetches a batch and sends it.  Connections are numbered in the
\* order in which they are accepted.
Subscribe(c) ==
    /\ hpc[c] = "idle"
    /\ \A d \in 1..(c - 1) : hpc[d] # "idle"
    /\ active_connections' = Append(active_connections, c)
    /\ IF FetchRaises(stock_data)
         THEN /\ hpc' = [hpc EXCEPT ![c] = "failed"]
              /\ UNCHANGED <<ds_vars, hres, received>>
         ELSE /\ FetchStockData
              /\ hpc' = [hpc EXCEPT ![c] = "initial_send"]
              /\ hres' = [hres EXCEPT ![c] = SendResult(c)]
              /\ received' = Deliver(c, Len(produced) + 1)
    /\ UNCHANGED <<worker_vars, alive>>
    /\ UNCHANGED dp_vars

\* lines 163-170: the initial send_text has completed; a failure is raised
\* out of the handler, before its try block
InitialSendDone(c) ==
    /\ hpc[c] = "initial_send"
    /\ hres[c] # "blocked"
    /\ hpc' = [hpc EXCEPT ![c] = IF hres[c] = "ok" THEN "receiving" ELSE "failed"]
    /\ hres' = [hres EXCEPT ![c] = "none"]
    /\ UNCHANGED <<ds_vars, active_connections, worker_vars, alive, received>>
    /\ UNCHANGED dp_vars

\* lines 168-174: receive_text raises once the client is gone; the finally
\* clause removes the connection, and raises ValueError when it is no longer
\* in the list
HandlerDisconnect(c) ==
    /\ hpc[c] = "receiving"
    /\ ~alive[c]
    /\ IF InList(active_connections, c)
         THEN /\ active_connections' = ListRemove(active_connections, c)
              /\ hpc' = [hpc EXCEPT ![c] = "closed"]
         ELSE /\ hpc' = [hpc EXCEPT ![c] = "raised"]
              /\ UNCHANGED active_connections
    /\ UNCHANGED <<ds_vars, worker_vars, hres, alive, received>>
    /\ UNCHANGED dp_vars

\* the environment: a client closes its end of the connection
ClientDisconnect(c) ==
    /\ alive[c]
    /\ hpc[c] \in {"idle", "initial_send", "receiving"}
    /\ alive' = [alive EXCEPT ![c] = FALSE]
    /\ UNCHANGED <<ds_vars, active_connections, worker_vars, hpc, hres, received>>
    /\ UNCHANGED dp_vars

\* the files of the broadcaster specification: an empty table (every fetch
\* raises) and a table of three timestamps with a gap
BroadcastCsvFiles ==
    {<<>>,
     <<[id |-> "A1EX2F.ETR", time |-> 1, last |-> Num(5)],
       [id |-> "ALORA.FR", time |-> 2, last |-> Num(0)],
       [id |-> "A1EX2F.ETR", time |-> 3, last |-> NaN]>>}

BroadcasterInit ==
    /\ \E csv \in BroadcastCsvFiles : stock_data \in LoadStockData(csv)
    /\ current_index = 0
    /\ last_known_prices = LoadLastKnown
    /\ current_data = None
    /\ produced = <<>>
    /\ BroadcasterIdle
    /\ ConsumerIdle
    /\ feed_msgs = {}
    /\ stalled = {}
    /\ sub_stalled = {}

BroadcasterNext ==
    \/ WorkerRound
    \/ WorkerSendDone
    \/ \E c \in Clients : Subscribe(c)
    \/ \E c \in Clients : InitialSendDone(c)
    \/ \E c \in Clients : HandlerDisconnect(c)
    \/ \E c \in Clients : ClientDisconnect(c)

BroadcasterSpec == BroadcasterInit /\ [][BroadcasterNext]_vars

\* the event loop runs every task that is ready, and a sleep ends
FairBroadcasterSpec ==
    /\ BroadcasterSpec
    /\ WF_vars(WorkerRound)
    /\ WF_vars(WorkerSendDone)


Received(c) == {received[c][i] : i \in 1..Len(received[c])}

HandlerEnded(c) == hpc[c] \in {"closed", "raised"}

(***************************************************************************)
(* C1.  At the end of a fan-out round every subscriber whose send failed   *)
(* in the round is out of the live list, and every other subscriber that   *)
(* was in the list at the start of the round has been sent the batch and   *)
(* is still in the list (unless its own handler has ended since).          *)
(***************************************************************************)
C1_RoundReachesEveryLiveSubscriber ==
    wpc = "sleep" =>
        \A c \in round_live :
            /\ c \in round_failed => ~InList(active_connections, c)
            /\ c \notin round_failed =>
                   \/ c \in round_sent /\ InList(active_connections, c)
                   \/ HandlerEnded(c)

(***************************************************************************)
(* C3.  The batches a subscriber receives arrive in the order the replay   *)
(* cursor produced them, none of them twice.                               *)
(***************************************************************************)
C3_BatchesArriveInProductionOrder ==
    \A c \in Clients :
        \A i \in 1..Len(received[c]) : \A j \in 1..Len(received[c]) :
            i < j => received[c][i] < received[c][j]

(***************************************************************************)
(* C4.  While a subscriber is live and its sends succeed, every batch      *)
(* produced since its first one has been sent to it, or is the batch of    *)
(* the round in progress, which has not reached it yet.                    *)
(***************************************************************************)
C4_NoBatchSkipped ==
    \A c \in Clients :
        (alive[c] /\ hpc[c] \in {"initial_send", "receiving"}) =>
            \A b \in 1..Len(produced) :
                b >= received[c][1] =>
                    \/ b \in Received(c)
                    \/ wpc = "sending" /\ wbatch = b /\ c \notin round_sent

(***************************************************************************)
(* C9.  The worker's loop never exits, and a round that ended in an error  *)
(* is followed by the further rounds: the sleep after the error ends only  *)
(* in the start of a round, and the worker goes on to run every round the  *)
(* model lets it run (rounds grows by one with each round).                *)
(***************************************************************************)
C9_WorkerSurvivesRoundError ==
    /\ [](wpc # "exited")
    /\ [][wpc = "error_sleep" /\ wpc' # "error_sleep" => rounds' = rounds + 1]_vars
    /\ (wpc = "error_sleep") ~> (rounds = MaxRounds)

\* a round of a non-empty table that failed in the fan-out (list.remove
\* raised), with a round still to come
C9_Witness ==
    /\ wpc = "error_sleep"
    /\ Len(stock_data) > 0
    /\ rounds < MaxRounds


(***************************************************************************)
(* The Indicator Engine of data-processor/main.py.  A float is modelled by *)
(* the rational it stands for, [n |-> numerator, d |-> denominator > 0] in *)
(* lowest terms, so the arithmetic is exact; NaN and the infinities are    *)
(* values of their own.                                                    *)
(***************************************************************************)
RECURSIVE Gcd(_, _)
Gcd(a, b) == IF b = 0 THEN a ELSE Gcd(b, a % b)

Abs(x) == IF x < 0 THEN -x ELSE x

Rat(n, d) ==
    LET g == Gcd(Abs(n), d)
    IN  [n |-> n \div g, d |-> d \div g]

RatAdd(a, b) ==
    LET g == Gcd(a.d, b.d)
    IN  Rat(a.n * (b.d \div g) + b.n * (a.d \div g), (a.d \div g) * b.d)

RatSub(a, b) == RatAdd(a, [n |-> -b.n, d |-> b.d])

RatMul(a, b) ==
    LET g1 == Gcd(Abs(a.n), b.d)
        g2 == Gcd(Abs(b.n), a.d)
    IN  Rat((a.n \div g1) * (b.n \div g2), (a.d \div g2) * (b.d \div g1))

\* a / b for b # 0
RatDiv(a, b) ==
    IF b.n > 0
      THEN RatMul(a, [n |-> b.d, d |-> b.n])
      ELSE RatMul(a, [n |-> -b.d, d |-> -b.n])

RatLess(a, b) ==
    LET g == Gcd(a.d, b.d)
    IN  a.n * (b.d \div g) < b.n * (a.d \div g)

\* the integer nearest to q + r / d (0 <= r < d), ties to the even one
\* (Python's round)
RoundHalfEven(q, r, d) ==
    IF 2 * r < d THEN q
    ELSE IF 2 * r > d THEN q + 1
    ELSE IF q % 2 = 0 THEN q ELSE q + 1

\* q + r / d shifted by k decimal places, by long division: the integer
\* part and the remainder
RECURSIVE Shift(_, _, _, _)
Shift(q, r, d, k) ==
    IF k = 0
      THEN [q |-> q, r |-> r]
      ELSE Shift(q * 10 + (r * 10) \div d, (r * 10) % d, d, k - 1)

\* round(x, 4)
Decimals == 4
Scale == 10000
Round4(x) ==
    LET s == Shift(x.n \div x.d, x.n % x.d, x.d, Decimals)
    IN  Rat(RoundHalfEven(s.q, s.r, x.d), Scale)

Inf == [tag |-> "inf"]
Absent == [tag |-> "absent"]
IsNumber(v) == v.tag = "num"
Zero == Rat(0, 1)

\* NaN and the infinities passed on as they are
validate_float_KeepsNonFinite(value) ==
    IF IsNumber(value) THEN Num(Round4(value.val)) ELSE value

\* lines 40-52: None for None, NaN and the infinities, else the value rounded
\* to four decimals
validate_float(value) ==
    IF IsNumber(value) THEN Num(Round4(value.val)) ELSE None

\* lines 59-62: no previous EMA, or a previous EMA equal to 0
EmaStartsOver(prev) == prev = Absent \/ prev = Num(Zero)

\* the formula applied to the first price as well
calculate_ema_AlwaysFormula(current_price, period, prev) ==
    LET multiplier == Rat(2, 1 + period)
    IN  Num(RatAdd(RatMul(current_price.val, multiplier),
                   RatMul((IF prev = Absent THEN Num(Zero) ELSE prev).val,
                          RatSub(Rat(1, 1), multiplier))))

\* the multiplier 2 / j in place of 2 / (1 + j)
calculate_ema_PeriodMultiplier(current_price, period, prev) ==
    IF EmaStartsOver(prev)
      THEN current_price
      ELSE LET multiplier == Rat(2, period)
           IN  Num(RatAdd(RatMul(current_price.val, multiplier),
                          RatMul(prev.val, RatSub(Rat(1, 1), multiplier))))

\* lines 54-73: the EMA returned (and stored) for a price and the stored
\* previous value
calculate_ema(current_price, period, prev) ==
    IF EmaStartsOver(prev)
      THEN current_price
      ELSE LET multiplier == Rat(2, 1 + period)
           IN  Num(RatAdd(RatMul(current_price.val, multiplier),
                          RatMul(prev.val, RatSub(Rat(1, 1), multiplier))))

\* equal EMAs classified as bullish
CurrentState_NeverUnknown(ema38, ema100) ==
    IF RatLess(ema38.val, ema100.val) THEN "bearish" ELSE "bullish"

\* lines 80-85
CurrentState(ema38, ema100) ==
    IF RatLess(ema100.val, ema38.val) THEN "bullish"
    ELSE IF RatLess(ema38.val, ema100.val) THEN "bearish"
    ELSE "none"

\* line 88: previous_states.get(stock_id)
PrevState(stored) == IF stored = "absent" THEN "none" ELSE stored

\* a crossover found against a previous state that is not there
Breakouts_NoPriorCheck(stored, current_state) ==
    LET crossed == PrevState(stored) # current_state
    IN  [is_bullish_breakout |-> crossed /\ current_state = "bullish",
         is_bearish_breakout |-> crossed /\ current_state = "bearish"]

\* lines 91-103
Breakouts(stored, current_state) ==
    LET crossed == PrevState(stored) # current_state /\ PrevState(stored) # "none"
    IN  [is_bullish_breakout |-> crossed /\ current_state = "bullish",
         is_bearish_breakout |-> crossed /\ current_state = "bearish"]

\* lines 130-134: the history after the append
HistoryLimit == 100
\* the newest price dropped from a full history
AppendPrice_EvictsNewest(history, price) ==
    LET h == Append(history, price)
    IN  IF Len(h) > HistoryLimit
          THEN SubSeq(h, 1, HistoryLimit)
          ELSE h

AppendPrice(history, price) ==
    LET h == Append(history, price)
    IN  IF Len(h) > HistoryLimit
          THEN SubSeq(h, Len(h) - HistoryLimit + 1, Len(h))
          ELSE h

\* lines 161-175: price change against the sample before the last; the keys
\* are left out of stats (read back as None) when the previous price is 0
HasChange(history) ==
    Len(history) >= 2 /\ history[Len(history) - 1] # Num(Zero)

\* the change against the oldest sample of the history
PriceChange_AgainstOldest(history) ==
    IF HasChange(history)
      THEN validate_float(Num(RatSub(history[Len(history)].val, history[1].val)))
      ELSE None

PriceChange(history) ==
    IF HasChange(history)
      THEN validate_float(Num(RatSub(history[Len(history)].val,
                                     history[Len(history) - 1].val)))
      ELSE None

PriceChangePercent(history) ==
    IF HasChange(history)
      THEN validate_float(Num(RatMul(
               RatDiv(RatSub(history[Len(history)].val, history[Len(history) - 1].val),
                      history[Len(history) - 1].val),
               Rat(100, 1))))
      ELSE None

\* line 178: whether the crossover is evaluated
Period38 == 38
Period100 == 100
MinSamples == 2
\* the crossover evaluated from the second sample on
EvaluatesCrossover_FromSecond(safe_ema38, safe_ema100, history) ==
    safe_ema38 # None /\ safe_ema100 # None /\ Len(history) > MinSamples - 1

EvaluatesCrossover(safe_ema38, safe_ema100, history) ==
    safe_ema38 # None /\ safe_ema100 # None /\ Len(history) > MinSamples

\* the invalid price counted as a sample
StatsInvalid_CountsCall(st) ==
    [current_price |-> None, ema38 |-> None, ema100 |-> None,
     is_bullish_breakout |-> FALSE, is_bearish_breakout |-> FALSE,
     price_change |-> None, price_change_percent |-> None,
     samples_collected |-> Len(st.prices) + 1]

\* lines 110-194: calculate_statistics for one symbol, from the state of the
\* symbol st = [prices, ema38, ema100, state]: the stats returned and the
\* state left
StatsInvalid(st) ==
    [current_price |-> None, ema38 |-> None, ema100 |-> None,
     is_bullish_breakout |-> FALSE, is_bearish_breakout |-> FALSE,
     price_change |-> None, price_change_percent |-> None,
     samples_collected |-> Len(st.prices)]

calculate_statistics(st, current_price) ==
    LET safe_current_price == validate_float(current_price)
    IN  IF safe_current_price = None
          THEN [stats |-> StatsInvalid(st), st |-> st]
          ELSE
            LET history == AppendPrice(st.prices, safe_current_price)
                ema38 == calculate_ema(safe_current_price, Period38,
                                       IF st.ema38 = Absent THEN Num(Zero) ELSE st.ema38)
                ema100 == calculate_ema(safe_current_price, Period100,
                                        IF st.ema100 = Absent THEN Num(Zero) ELSE st.ema100)
                safe_ema38 == validate_float(ema38)
                safe_ema100 == validate_float(ema100)
                evaluated == EvaluatesCrossover(safe_ema38, safe_ema100, history)
                current_state == CurrentState(safe_ema38, safe_ema100)
                breakouts == IF evaluated
                               THEN Breakouts(st.state, current_state)
                               ELSE [is_bullish_breakout |-> FALSE,
                                     is_bearish_breakout |-> FALSE]
            IN  [stats |->
                    [current_price |-> safe_current_price,
                     ema38 |-> safe_ema38,
                     ema100 |-> safe_ema100,
                     is_bullish_breakout |-> breakouts.is_bullish_breakout,
                     is_bearish_breakout |-> breakouts.is_bearish_breakout,
                     price_change |-> PriceChange(history),
                     price_change_percent |-> PriceChangePercent(history),
                     samples_collected |-> Len(history)],
                 st |->
                    [prices |-> history,
                     ema38 |-> ema38,
                     ema100 |-> ema100,
                     state |-> IF evaluated THEN current_state ELSE st.state]]


(***************************************************************************)
(* The Analytics Consumer: connect_to_broadcaster, broadcast_to_clients    *)
(* and the subscribe handler websocket_endpoint of data-processor/main.py. *)
(***************************************************************************)
\* a price cell that float() cannot convert
Bad == [tag |-> "bad"]

EmptySnapshot == [tag |-> "empty"]

\* the messages the feed of the model delivers: one that json.loads rejects,
\* and two batches
ConsumerFeed ==
    {[kind |-> "malformed"],
     [kind |-> "batch", trading_time |-> 1,
      stocks |-> ("A1EX2F.ETR" :> Num(Rat(10, 1)))],
     [kind |-> "batch", trading_time |-> 2,
      stocks |-> ("A1EX2F.ETR" :> Num(Rat(12, 1)) @@ "ALORA.FR" :> Bad)]}

SymbolState(s) ==
    [prices |-> stock_prices[s],
     ema38 |-> previous_emas_38[s],
     ema100 |-> previous_emas_100[s],
     state |-> previous_states[s]]

\* line 259: float(price) raises for a value that is no number
ConversionRaises(cell) == cell = Bad

\* lines 257-293: the result of one symbol of the batch
Processed(s, cell) ==
    IF ConversionRaises(cell)
      THEN [stats |-> [error |-> TRUE], st |-> SymbolState(s)]
      ELSE calculate_statistics(SymbolState(s), cell)

\* the entries of the batch written into the snapshot that is there
Snapshot_UpdatesInPlace(m) ==
    LET old == IF latest_tick_data = EmptySnapshot
                 THEN <<>>
                 ELSE latest_tick_data.stocks
    IN  [trading_time |-> m.trading_time,
         stocks |-> [s \in DOMAIN old \cup DOMAIN m.stocks |->
                        IF s \in DOMAIN m.stocks
                          THEN Processed(s, m.stocks[s]).stats
                          ELSE old[s]]]

\* lines 255-302: the snapshot built from a batch
Snapshot(m) ==
    [trading_time |-> m.trading_time,
     stocks |-> [s \in DOMAIN m.stocks |-> Processed(s, m.stocks[s]).stats]]

\* largest numerator and denominator of a stored EMA that a further update
\* is computed from (the products of the update stay within the integers)
MaxMagnitude == 1000000

\* the update is computed exactly
Fits(prev, price) ==
    IF ~IsNumber(price) \/ prev = Absent
      THEN TRUE
      ELSE /\ Abs(prev.val.n) <= MaxMagnitude \div validate_float(price).val.d
           /\ prev.val.d <= MaxMagnitude \div validate_float(price).val.d

\* every update of the batch is computed exactly
BatchFits(m) ==
    \A s \in DOMAIN m.stocks :
        IF ConversionRaises(m.stocks[s])
          THEN TRUE
          ELSE /\ Fits(previous_emas_38[s], m.stocks[s])
               /\ Fits(previous_emas_100[s], m.stocks[s])

\* a failure of one symbol leaves every symbol of the batch as it was
StateAfter_BatchAborted(m, s) ==
    IF \E t \in DOMAIN m.stocks : ConversionRaises(m.stocks[t])
      THEN SymbolState(s)
      ELSE IF s \in DOMAIN m.stocks THEN Processed(s, m.stocks[s]).st ELSE SymbolState(s)

StateAfter(m, s) ==
    IF s \in DOMAIN m.stocks THEN Processed(s, m.stocks[s]).st ELSE SymbolState(s)

ProcessBatch(m) ==
    /\ latest_tick_data' = Snapshot(m)
    /\ stock_prices' = [s \in FeedSymbols |-> StateAfter(m, s).prices]
    /\ previous_emas_38' = [s \in FeedSymbols |-> StateAfter(m, s).ema38]
    /\ previous_emas_100' = [s \in FeedSymbols |-> StateAfter(m, s).ema100]
    /\ previous_states' = [s \in FeedSymbols |-> StateAfter(m, s).state]
    /\ UNCHANGED engine_log

\* the outcome of await connection.send_json: it returns, it raises, or, for
\* a transport that accepts no write, it never completes
SubSendResult(c) ==
    IF c \in sub_stalled THEN "blocked" ELSE IF sub_alive[c] THEN "ok" ELSE "fail"

SubDeliver(c, n) ==
    IF sub_alive[c] /\ c \notin sub_stalled
      THEN [sub_received EXCEPT ![c] = Append(@, n)]
      ELSE sub_received

FeedErrorNext_NoDelay == "connecting"

\* lines 307-309: the except clause of the loop logs and sleeps 5 seconds
FeedErrorNext == "backoff"

\* an exception reaches the except clause of connect_to_broadcaster; the
\* `async with` has closed the feed connection on the way
FeedError ==
    /\ feed_pc' = FeedErrorNext
    /\ failures' = failures + 1
    /\ fan_todo' = {}
    /\ fan_conn' = NoConn
    /\ fan_res' = "none"
    /\ UNCHANGED <<messages, delays, attempts>>

\* lines 228-234: the loop over active_connections.copy(), with `todo` the
\* connections of the copy not visited yet: the next one is sent the message,
\* or broadcast_to_clients returns and the task waits for the next message
FanOutLoop(todo, conns, n) ==
    /\ consumer_connections' = conns
    /\ UNCHANGED <<messages, failures, delays, attempts>>
    /\ IF todo = {}
         THEN /\ feed_pc' = "connected"
              /\ fan_todo' = {}
              /\ fan_conn' = NoConn
              /\ fan_res' = "none"
              /\ UNCHANGED sub_received
         ELSE \E c \in todo :
              /\ feed_pc' = "fanout"
              /\ fan_todo' = todo \ {c}
              /\ fan_conn' = c
              /\ fan_res' = SubSendResult(c)
              /\ sub_received' = SubDeliver(c, n)

\* line 240: the connection attempt succeeds
ConnectOk ==
    /\ feed_pc = "connecting"
    /\ feed_pc' = "connected"
    /\ UNCHANGED <<fan_todo, fan_conn, fan_res, messages, failures, delays, attempts>>
    /\ UNCHANGED <<latest_tick_data, engine_vars, consumer_connections, sub_vars, sub_received>>
    /\ UNCHANGED <<ds_vars, bc_vars, env_vars, query_log>>

\* line 240: the connection attempt fails
ConnectFail ==
    /\ feed_pc = "connecting"
    /\ failures < MaxFailures
    /\ FeedError
    /\ UNCHANGED <<latest_tick_data, engine_vars, consumer_connections, sub_vars, sub_received>>
    /\ UNCHANGED <<ds_vars, bc_vars, env_vars, query_log>>

\* line 309: the sleep ends, the loop makes the next connection attempt
BackoffDone ==
    /\ feed_pc = "backoff"
    /\ feed_pc' = "connecting"
    /\ delays' = delays + 1
    /\ attempts' = attempts + 1
    /\ UNCHANGED <<fan_todo, fan_conn, fan_res, messages, failures>>
    /\ UNCHANGED <<latest_tick_data, engine_vars, consumer_connections, sub_vars, sub_received>>
    /\ UNCHANGED <<ds_vars, bc_vars, env_vars, query_log>>

\* line 245: recv raises, the feed connection is lost
RecvFail ==
    /\ feed_pc = "connected"
    /\ failures < MaxFailures
    /\ FeedError
    /\ UNCHANGED <<latest_tick_data, engine_vars, consumer_connections, sub_vars, sub_received>>
    /\ UNCHANGED <<ds_vars, bc_vars, env_vars, query_log>>

\* lines 245-246: a message arrives that json.loads rejects
RecvMalformed ==
    /\ feed_pc = "connected"
    /\ messages < feed_len
    /\ failures < MaxFailures
    /\ [kind |-> "malformed"] \in feed_msgs
    /\ feed_pc' = FeedErrorNext
    /\ failures' = failures + 1
    /\ messages' = messages + 1
    /\ UNCHANGED <<fan_todo, fan_conn, fan_res, delays, attempts>>
    /\ UNCHANGED <<latest_tick_data, engine_vars, consumer_connections, sub_vars, sub_received>>
    /\ UNCHANGED <<ds_vars, bc_vars, env_vars, query_log>>

\* lines 245-305: a batch arrives; it is processed, the snapshot is replaced
\* and the fan-out runs up to its first send_json
RecvBatch ==
    /\ feed_pc = "connected"
    /\ messages < feed_len
    /\ \E m \in feed_msgs :
        /\ m.kind = "batch"
        /\ BatchFits(m)
        /\ ProcessBatch(m)
        /\ \E c \in (IF consumer_connections = {} THEN {NoConn} ELSE consumer_connections) :
            /\ consumer_connections' = consumer_connections
            /\ messages' = messages + 1
            /\ UNCHANGED <<failures, delays, attempts>>
            /\ IF c = NoConn
                 THEN /\ feed_pc' = "connected"
                      /\ UNCHANGED <<fan_todo, fan_conn, fan_res, sub_received>>
                 ELSE /\ feed_pc' = "fanout"
                      /\ fan_todo' = consumer_connections \ {c}
                      /\ fan_conn' = c
                      /\ fan_res' = SubSendResult(c)
                      /\ sub_received' = SubDeliver(c, messages + 1)
    /\ UNCHANGED sub_vars
    /\ UNCHANGED <<ds_vars, bc_vars, env_vars, query_log>>

\* lines 231-234: the send_json the fan-out was suspended on has completed;
\* on a failure the connection is removed from the set, and set.remove
\* raises KeyError, out of broadcast_to_clients, when it is not in the set
FanSendDone ==
    /\ feed_pc = "fanout"
    /\ fan_res # "blocked"
    /\ IF fan_res = "ok"
         THEN FanOutLoop(fan_todo, consumer_connections, messages)
         ELSE IF fan_conn \in consumer_connections
                THEN FanOutLoop(fan_todo, consumer_connections \ {fan_conn}, messages)
                ELSE /\ FeedError
                     /\ UNCHANGED <<consumer_connections, sub_received>>
    /\ UNCHANGED <<latest_tick_data, engine_vars, sub_vars>>
    /\ UNCHANGED <<ds_vars, bc_vars, env_vars, query_log>>

\* the finally clause of the handler, line 480: set.remove raises KeyError
\* when the fan-out has removed the connection already
SubFinally(c) ==
    IF c \in consumer_connections
      THEN /\ consumer_connections' = consumer_connections \ {c}
           /\ sub_pc' = [sub_pc EXCEPT ![c] = "closed"]
      ELSE /\ sub_pc' = [sub_pc EXCEPT ![c] = "raised"]
           /\ UNCHANGED consumer_connections

\* lines 443-468: a client has connected; the handler accepts, adds the
\* connection and, when there is a snapshot, sends it.  Connections are
\* numbered in the order in which they are accepted.
SubSubscribe(c) ==
    /\ sub_pc[c] = "idle"
    /\ \A d \in 1..(c - 1) : sub_pc[d] # "idle"
    /\ consumer_connections' = consumer_connections \cup {c}
    /\ IF latest_tick_data # EmptySnapshot
         THEN /\ sub_pc' = [sub_pc EXCEPT ![c] = "initial_send"]
              /\ sub_res' = [sub_res EXCEPT ![c] = SubSendResult(c)]
              /\ sub_received' = SubDeliver(c, messages)
         ELSE /\ sub_pc' = [sub_pc EXCEPT ![c] = "receiving"]
              /\ UNCHANGED <<sub_res, sub_received>>
    /\ UNCHANGED <<feed_vars, latest_tick_data, engine_vars, sub_alive>>
    /\ UNCHANGED <<ds_vars, bc_vars, env_vars, query_log>>

\* lines 468-480: the initial send_json has completed; a failure is caught
\* and ends the handler through its finally clause
SubInitialSendDone(c) ==
    /\ sub_pc[c] = "initial_send"
    /\ sub_res[c] # "blocked"
    /\ IF sub_res[c] = "ok"
         THEN /\ sub_pc' = [sub_pc EXCEPT ![c] = "receiving"]
              /\ UNCHANGED consumer_connections
         ELSE SubFinally(c)
    /\ sub_res' = [sub_res EXCEPT ![c] = "none"]
    /\ UNCHANGED <<feed_vars, latest_tick_data, engine_vars, sub_alive, sub_received>>
    /\ UNCHANGED <<ds_vars, bc_vars, env_vars, query_log>>

\* lines 471-480: receive_text raises once the client is gone
SubHandlerDisconnect(c) ==
    /\ sub_pc[c] = "receiving"
    /\ ~sub_alive[c]
    /\ SubFinally(c)
    /\ UNCHANGED <<feed_vars, latest_tick_data, engine_vars, sub_res, sub_alive, sub_received>>
    /\ UNCHANGED <<ds_vars, bc_vars, env_vars, query_log>>

\* the environment: a client closes its end of the connection
SubClientDisconnect(c) ==
    /\ sub_alive[c]
    /\ sub_pc[c] \in {"idle", "initial_send", "receiving"}
    /\ sub_alive' = [sub_alive EXCEPT ![c] = FALSE]
    /\ UNCHANGED <<feed_vars, latest_tick_data, engine_vars, consumer_connections>>
    /\ UNCHANGED <<sub_pc, sub_res, sub_received>>
    /\ UNCHANGED <<ds_vars, bc_vars, env_vars, query_log>>

ConsumerInit ==
    /\ stock_data = <<>>
    /\ current_index = 0
    /\ last_known_prices = LoadLastKnown
    /\ current_data = None
    /\ produced = <<>>
    /\ BroadcasterIdle
    /\ ConsumerIdle
    /\ feed_msgs = ConsumerFeed
    /\ stalled = {}
    /\ sub_stalled = {}

ConsumerNext ==
    \/ ConnectOk
    \/ ConnectFail
    \/ BackoffDone
    \/ RecvFail
    \/ RecvMalformed
    \/ RecvBatch
    \/ FanSendDone
    \/ \E c \in Clients : SubSubscribe(c)
    \/ \E c \in Clients : SubInitialSendDone(c)
    \/ \E c \in Clients : SubHandlerDisconnect(c)
    \/ \E c \in Clients : SubClientDisconnect(c)

ConsumerSpec == ConsumerInit /\ [][ConsumerNext]_vars

\* a sleep ends, and the task is run again
FairConsumerSpec == ConsumerSpec /\ WF_vars(BackoffDone)

(***************************************************************************)
(* C2.  A step of the fan-out leaves the feed connection Connected (it     *)
(* goes on with the round or ends it, and never enters the backoff), and   *)
(* when the fan-out is over every live subscriber in the set has been sent *)
(* the snapshot of the round.                                              *)
(***************************************************************************)
C2_SubscriberFailureStaysLocal ==
    [][feed_pc = "fanout" =>
          /\ feed_pc' \in {"fanout", "connected"}
          /\ feed_pc' # "fanout" =>
                \A c \in consumer_connections' :
                    sub_alive'[c] =>
                        \E i \in 1..Len(sub_received'[c]) :
                            sub_received'[c][i] = messages]_vars

(***************************************************************************)
(* C10.  Every failure of the feed, while connecting or while connected,   *)
(* is followed by exactly one delay and then exactly one new connection    *)
(* attempt: the failures counted are the delays that have ended plus the   *)
(* one in progress, the attempts are one more than the delays that have    *)
(* ended, a delay ends in a connection attempt and in nothing else, every  *)
(* delay does end, and the loop never exits.                               *)
(***************************************************************************)
C10_FailureThenOneDelayThenOneAttempt ==
    /\ [](failures = delays + (IF feed_pc = "backoff" THEN 1 ELSE 0))
    /\ [](attempts = delays + 1)
    /\ [](feed_pc \in {"connecting", "connected", "fanout", "backoff"})
    /\ [][feed_pc = "backoff" => feed_pc' \in {"backoff", "connecting"}]_vars
    /\ [][feed_pc' = "connecting" /\ feed_pc # "connecting" => feed_pc = "backoff"]_vars
    /\ (feed_pc = "backoff") ~> (feed_pc = "connecting")

\* the feed has failed while connecting and while connected, and is
\* connected again after the delays
C10_Witness ==
    /\ feed_pc = "connected"
    /\ messages >= 1
    /\ delays >= 2
    /\ failures = delays
    /\ attempts = delays + 1

MaxBatches == 3

IngestInit ==
    /\ stock_data = <<>>
    /\ current_index = 0
    /\ last_known_prices = LoadLastKnown
    /\ current_data = None
    /\ produced = <<>>
    /\ BroadcasterIdle
    /\ FeedIdle
    /\ EngineFresh
    /\ feed_len = MaxBatches
    /\ feed_msgs = ConsumerFeed
    /\ stalled = {}
    /\ sub_stalled = {}

IngestNext ==
    \/ ConnectOk
    \/ ConnectFail
    \/ BackoffDone
    \/ RecvFail
    \/ RecvMalformed
    \/ RecvBatch

IngestSpec == IngestInit /\ [][IngestNext]_vars


\* the snapshot holds the results of the batch m and of no other: an entry
\* for every symbol of m and for no other symbol, each the one made from the
\* cell of m
CompleteResultOf(m) ==
    /\ latest_tick_data.trading_time = m.trading_time
    /\ DOMAIN latest_tick_data.stocks = DOMAIN m.stocks
    /\ \A s \in DOMAIN m.stocks :
           IF ConversionRaises(m.stocks[s])
             THEN latest_tick_data.stocks[s] = [error |-> TRUE]
             ELSE /\ latest_tick_data.stocks[s].current_price = validate_float(m.stocks[s])
                  /\ latest_tick_data.stocks[s].samples_collected = Len(stock_prices[s])

(***************************************************************************)
(* C12.  In every state in which a reader can run the snapshot is empty or *)
(* the complete result of one batch, and it changes only in the step that  *)
(* has received a batch, as a whole.                                       *)
(***************************************************************************)
C12_SnapshotIsOneBatch ==
    /\ [](\/ latest_tick_data = EmptySnapshot
          \/ \E m \in feed_msgs : m.kind = "batch" /\ CompleteResultOf(m))
    /\ [][latest_tick_data' # latest_tick_data =>
             /\ messages' = messages + 1
             /\ \E m \in feed_msgs : m.kind = "batch" /\ CompleteResultOf(m)']_vars

\* the batch of two symbols has been replaced by the batch of one
C12_Witness ==
    /\ latest_tick_data # EmptySnapshot
    /\ latest_tick_data.trading_time = 1
    /\ DOMAIN latest_tick_data.stocks = {"A1EX2F.ETR"}
    /\ stock_prices["A1EX2F.ETR"] = <<Num(Rat(12, 1)), Num(Rat(10, 1))>>

\* the snapshot has the entry of a symbol whose processing failed
HasErrorEntry(snapshot) ==
    /\ snapshot # EmptySnapshot
    /\ \E s \in DOMAIN snapshot.stocks : snapshot.stocks[s] = [error |-> TRUE]

(***************************************************************************)
(* C27.  The step that processes a batch in which one symbol fails (its    *)
(* price cannot be converted) raises nothing: no failure is counted, the   *)
(* snapshot is replaced by the complete result of the batch, every other   *)
(* symbol of the batch has its price appended to its history, and the feed *)
(* stays connected, with the fan-out started if there is a subscriber.     *)
(***************************************************************************)
C27_SymbolFailureStaysInsideTheBatch ==
    [][(latest_tick_data' # latest_tick_data /\ HasErrorEntry(latest_tick_data')) =>
          /\ failures' = failures
          /\ feed_pc' = IF consumer_connections = {} THEN "connected" ELSE "fanout"
          /\ \E m \in feed_msgs :
                /\ m.kind = "batch"
                /\ CompleteResultOf(m)'
                /\ \E s \in DOMAIN m.stocks : ConversionRaises(m.stocks[s])
                /\ \A s \in DOMAIN m.stocks :
                      (~ConversionRaises(m.stocks[s]) /\ validate_float(m.stocks[s]) # None) =>
                          /\ Len(stock_prices'[s]) = Len(stock_prices[s]) + 1
                          /\ stock_prices'[s][Len(stock_prices'[s])] = validate_float(m.stocks[s])
                          /\ previous_emas_38'[s] # Absent
                          /\ previous_emas_100'[s] # Absent]_vars

\* the batch with the price that cannot be converted has been processed and
\* is being fanned out
C27_Witness ==
    /\ HasErrorEntry(latest_tick_data)
    /\ latest_tick_data.stocks["ALORA.FR"] = [error |-> TRUE]
    /\ latest_tick_data.stocks["A1EX2F.ETR"].current_price = Num(Rat(12, 1))
    /\ stock_prices["A1EX2F.ETR"] = <<Num(Rat(12, 1))>>
    /\ feed_pc = "fanout"
    /\ failures = 0

(***************************************************************************)
(* Subscribers whose transport accepts no write.  The two services with    *)
(* any set of such connections among their subscribers; a send_text or     *)
(* send_json to one of them never completes, and the code sets no timeout  *)
(* on it.                                                                  *)
(***************************************************************************)
StalledConsumerInit ==
    /\ stock_data = <<>>
    /\ current_index = 0
    /\ last_known_prices = LoadLastKnown
    /\ current_data = None
    /\ produced = <<>>
    /\ BroadcasterIdle
    /\ ConsumerIdle
    /\ feed_msgs = ConsumerFeed
    /\ stalled = {}
    /\ sub_stalled \in SUBSET Clients

StalledConsumerSpec == StalledConsumerInit /\ [][ConsumerNext]_vars

\* the event loop runs the feed task when the send it waits for has
\* completed, and a sleep ends
FairStalledConsumerSpec ==
    /\ StalledConsumerSpec
    /\ WF_vars(FanSendDone)
    /\ WF_vars(BackoffDone)

StalledBroadcasterInit ==
    /\ \E csv \in BroadcastCsvFiles : stock_data \in LoadStockData(csv)
    /\ current_index = 0
    /\ last_known_prices = LoadLastKnown
    /\ current_data = None
    /\ produced = <<>>
    /\ BroadcasterIdle
    /\ ConsumerIdle
    /\ feed_msgs = {}
    /\ stalled \in SUBSET Clients
    /\ sub_stalled = {}

StalledBroadcasterSpec == StalledBroadcasterInit /\ [][BroadcasterNext]_vars

FairStalledBroadcasterSpec ==
    /\ StalledBroadcasterSpec
    /\ WF_vars(WorkerRound)
    /\ WF_vars(WorkerSendDone)

(***************************************************************************)
(* C24.  In the Analytics Consumer a subscriber whose send never completes *)
(* does not stall the others: a fan-out that has begun eventually ends, so *)
(* that the next batch of the feed is ingested, and every other subscriber *)
(* the fan-out has yet to visit is eventually visited.                     *)
(***************************************************************************)
C24_StalledSubscriberStallsNobody ==
    /\ (feed_pc = "fanout") ~> (feed_pc # "fanout")
    /\ \A c \in Clients :
           (feed_pc = "fanout" /\ c \in fan_todo /\ c \notin sub_stalled)
               ~> (c \notin fan_todo)

\* the handler of the Tick Broadcaster for the connection has ended: after
\* its finally clause, or by an exception raised before its try block
HandlerOver(c) == hpc[c] \in {"closed", "raised", "failed"}

(***************************************************************************)
(* C28.  In the Tick Broadcaster a connection whose handler has ended, for *)
(* any reason, a failure of the initial send included, is not in           *)
(* active_connections.                                                     *)
(***************************************************************************)
C28_LiveOnlyWhileHandlerRuns ==
    \A c \in Clients : HandlerOver(c) => ~InList(active_connections, c)

(***************************************************************************)
(* C29.  A removal from the live subscriber set is only attempted for a    *)
(* connection that is in it: the finally clause of no handler raises, and  *)
(* when the fan-out removes a connection after a failed send the           *)
(* connection is in the set.                                               *)
(***************************************************************************)
C29_NoRemovalRaises ==
    /\ [](\A c \in Clients : hpc[c] # "raised")
    /\ [][(wpc = "sending" /\ wres = "fail" /\ worker_vars' # worker_vars) =>
              InList(active_connections, wconn)]_vars

(***************************************************************************)
(* The query handlers of data-processor/main.py.  A handler has no await:  *)
(* it runs from the request to the response in one step, on the snapshot   *)
(* of that step.  latest_tick_data["stocks"] is the list processed_stocks  *)
(* of line 255, a list of entries that carry their stock_id; the model     *)
(* keeps it as a function from the stock_id to the entry.                  *)
(***************************************************************************)
\* lines 323, 391, 422: `not latest_tick_data`
NoData == latest_tick_data = EmptySnapshot

\* lines 321-341: the entry is searched in the list by its stock_id
get_stock(stock_id) ==
    IF NoData
      THEN [status |-> "no_data"]
      ELSE IF stock_id \in DOMAIN latest_tick_data.stocks
             THEN [status |-> "found",
                   trading_time |-> latest_tick_data.trading_time,
                   data |-> latest_tick_data.stocks[stock_id]]
             ELSE [status |-> "not_found"]

\* lines 381-412: latest_tick_data["stocks"].get(stock_id) at line 394 calls
\* get on the list, which has no such method: AttributeError, raised out of
\* the handler for every stock_id once a snapshot exists
get_stock_ema(stock_id) ==
    IF NoData
      THEN [status |-> "no_data"]
      ELSE [status |-> "raises"]

\* line 426: stock.get("is_bullish_breakout") or stock.get("is_bearish_breakout");
\* an error entry has neither key
Flagged(entry) ==
    IF "is_bullish_breakout" \in DOMAIN entry
      THEN entry.is_bullish_breakout \/ entry.is_bearish_breakout
      ELSE FALSE

\* only the bullish flag read
get_breakouts_BullishOnly ==
    IF NoData
      THEN [status |-> "no_data"]
      ELSE [status |-> "found",
            breakouts |-> {s \in DOMAIN latest_tick_data.stocks :
                              /\ "is_bullish_breakout" \in DOMAIN latest_tick_data.stocks[s]
                              /\ latest_tick_data.stocks[s].is_bullish_breakout}]

\* lines 414-440: the stock_ids of the entries listed
get_breakouts ==
    IF NoData
      THEN [status |-> "no_data"]
      ELSE [status |-> "found",
            breakouts |-> {s \in DOMAIN latest_tick_data.stocks :
                              Flagged(latest_tick_data.stocks[s])}]

\* a handler has run: the query, the snapshot it ran on and its response
Answered(op, stock_id, result) ==
    /\ query_log' = [op |-> op, stock_id |-> stock_id,
                     snapshot |-> latest_tick_data, result |-> result]
    /\ UNCHANGED <<feed_vars, latest_tick_data, engine_vars, consumer_connections,
                   sub_vars, sub_received, env_vars>>
    /\ UNCHANGED <<ds_vars, bc_vars>>

QueryStock(stock_id) == Answered("get_stock", stock_id, get_stock(stock_id))

QueryStockEma(stock_id) == Answered("get_stock_ema", stock_id, get_stock_ema(stock_id))

QueryBreakouts == Answered("get_breakouts", "", get_breakouts)

(***************************************************************************)
(* The snapshot and its readers: the feed delivers MaxTicks batches, among *)
(* them prices that make a breakout flag fire and non-finite prices, and   *)
(* the query handlers run between any two of them.                         *)
(***************************************************************************)
\* batches of the feed in the snapshot specification
MaxTicks == 5

SnapshotFeed ==
    {[kind |-> "batch", trading_time |-> 1,
      stocks |-> ("A1EX2F.ETR" :> Num(Rat(10, 1)))],
     [kind |-> "batch", trading_time |-> 2,
      stocks |-> ("A1EX2F.ETR" :> Num(Rat(12, 1)) @@ "ALORA.FR" :> Bad)],
     [kind |-> "batch", trading_time |-> 3,
      stocks |-> ("A1EX2F.ETR" :> Num(Rat(2, 1)) @@ "ALORA.FR" :> Num(Rat(7, 1)))],
     [kind |-> "batch", trading_time |-> 4,
      stocks |-> ("A1EX2F.ETR" :> NaN @@ "ALORA.FR" :> Inf)]}

SnapshotInit ==
    /\ stock_data = <<>>
    /\ current_index = 0
    /\ last_known_prices = LoadLastKnown
    /\ current_data = None
    /\ produced = <<>>
    /\ BroadcasterIdle
    /\ FeedIdle
    /\ EngineFresh
    /\ feed_len = MaxTicks
    /\ feed_msgs = SnapshotFeed
    /\ stalled = {}
    /\ sub_stalled = {}

SnapshotNext ==
    \/ ConnectOk
    \/ RecvBatch
    \/ \E s \in FeedSymbols : QueryStock(s)
    \/ \E s \in FeedSymbols : QueryStockEma(s)
    \/ QueryBreakouts

SnapshotSpec == SnapshotInit /\ [][SnapshotNext]_vars

\* lines 202-219: the message of the fan-out, made from the snapshot: the
\* entries that have a price, every number passed through validate_float
\* again; stock.get(key) is None for a key the entry has not
Field(entry, key) == IF key \in DOMAIN entry THEN entry[key] ELSE None

NumericFields == {"current_price", "ema38", "ema100", "price_change", "price_change_percent"}

FormattedStock(entry) == [key \in NumericFields |-> validate_float(Field(entry, key))]

formatted_data(data) ==
    [s \in {t \in DOMAIN data.stocks : Field(data.stocks[t], "current_price") # None} |->
        FormattedStock(data.stocks[s])]

\* lines 449-466: the message of the initial send, with every entry
initial_data(data) == [s \in DOMAIN data.stocks |-> FormattedStock(data.stocks[s])]

\* the query ran on a snapshot
OnSnapshot == query_log.op # "none" /\ query_log.snapshot # EmptySnapshot

(***************************************************************************)
(* C22.  A single-symbol query (get_stock, get_stock_ema) that runs when a *)
(* snapshot exists returns the entry of the symbol in that snapshot if the *)
(* snapshot has one, and not-found if it has none.                         *)
(***************************************************************************)
C22_SingleSymbolRead ==
    (OnSnapshot /\ query_log.op \in {"get_stock", "get_stock_ema"}) =>
        IF query_log.stock_id \in DOMAIN query_log.snapshot.stocks
          THEN /\ query_log.result.status = "found"
               /\ query_log.result.data = query_log.snapshot.stocks[query_log.stock_id]
          ELSE query_log.result.status = "not_found"

\* the symbols of a snapshot whose entry has a breakout flag set
FlaggedIn(snapshot) ==
    {s \in DOMAIN snapshot.stocks :
        /\ {"is_bullish_breakout", "is_bearish_breakout"} \subseteq DOMAIN snapshot.stocks[s]
        /\ \/ snapshot.stocks[s].is_bullish_breakout
           \/ snapshot.stocks[s].is_bearish_breakout}

(***************************************************************************)
(* C23.  The breakout query returns exactly the symbols whose entry in the *)
(* snapshot of the call has a breakout flag set; in every state the query  *)
(* lists no symbol whose entry in the latest snapshot has both flags       *)
(* false; and the query changes neither the snapshot nor the state of any  *)
(* symbol.                                                                 *)
(***************************************************************************)
C23_BreakoutQueryFiltersSnapshot ==
    /\ []((OnSnapshot /\ query_log.op = "get_breakouts") =>
              /\ query_log.result.status = "found"
              /\ query_log.result.breakouts = FlaggedIn(query_log.snapshot))
    /\ [](~NoData => get_breakouts.breakouts = FlaggedIn(latest_tick_data))
    /\ [][query_log' # query_log =>
              UNCHANGED <<latest_tick_data, stock_prices, previous_emas_38,
                          previous_emas_100, previous_states>>]_vars

\* the query listed the symbol, and a later batch has replaced the snapshot
\* with an entry of the symbol whose flags are false
C23_Witness ==
    /\ OnSnapshot
    /\ query_log.op = "get_breakouts"
    /\ query_log.result.breakouts = {"A1EX2F.ETR"}
    /\ query_log.snapshot.stocks["A1EX2F.ETR"].is_bearish_breakout
    /\ ~NoData
    /\ latest_tick_data # query_log.snapshot
    /\ "A1EX2F.ETR" \in DOMAIN latest_tick_data.stocks
    /\ "A1EX2F.ETR" \notin get_breakouts.breakouts

NonFinite == {NaN, Inf}

(***************************************************************************)
(* C25.  No numeric field of an entry of the snapshot, of the message of   *)
(* the fan-out or of the message of the initial send is NaN or infinite.   *)
(***************************************************************************)
C25_NoNonFiniteNumber ==
    ~NoData =>
        /\ \A s \in DOMAIN latest_tick_data.stocks : \A key \in NumericFields :
               Field(latest_tick_data.stocks[s], key) \notin NonFinite
        /\ \A s \in DOMAIN formatted_data(latest_tick_data) : \A key \in NumericFields :
               formatted_data(latest_tick_data)[s][key] \notin NonFinite
        /\ \A s \in DOMAIN initial_data(latest_tick_data) : \A key \in NumericFields :
               initial_data(latest_tick_data)[s][key] \notin NonFinite

\* the batch of the non-finite prices has been processed for a symbol that
\* has samples
C25_Witness ==
    /\ ~NoData
    /\ latest_tick_data.trading_time = 4
    /\ Len(stock_prices["A1EX2F.ETR"]) > 0
    /\ latest_tick_data.stocks["A1EX2F.ETR"].current_price = None
    /\ latest_tick_data.stocks["ALORA.FR"].current_price = None

(***************************************************************************)
(* The Indicator Engine on its own: calculate_statistics called with every *)
(* sequence of up to MaxUpdates prices for one symbol, fresh or after a    *)
(* run of equal prices that fills its history up to two below the limit.   *)
(***************************************************************************)
\* calls of calculate_statistics followed in the engine specification
MaxUpdates == 6
EngineSymbol == "A1EX2F.ETR"

\* the prices of the engine specification: absent and non-finite ones, zero,
\* whole prices, prices with one decimal and one with five decimals
EnginePrices ==
    {None, NaN, Inf,
     Num(Rat(0, 1)), Num(Rat(-2, 1)), Num(Rat(10, 1)), Num(Rat(11, 1)), Num(Rat(12, 1)),
     Num(Rat(3935, 2)), Num(Rat(-3663, 2)), Num(Rat(321, 32))}

FreshSymbol == [prices |-> <<>>, ema38 |-> Absent, ema100 |-> Absent, state |-> "absent"]

\* the crossover relationship of the EMAs of an entry
Sign(stats) ==
    IF stats.ema38 = None \/ stats.ema100 = None
      THEN "none"
      ELSE CurrentState(stats.ema38, stats.ema100)

\* whether the call that returned stats and left the state st evaluated the
\* crossover: from the third sample on the relationship is stored
Classified(st, stats) == stats.current_price # None /\ st.state # "absent"

\* one call calculate_statistics(stock_id, price) and its record: the price,
\* the state before, the entry returned, and the last relationship other
\* than "none" that a call before this one has classified
EngineCall(es, price) ==
    LET res == CHOOSE r \in {calculate_statistics(es.st, price)} : TRUE
    IN  [st |-> res.st,
         log |-> [calls |-> es.log.calls + 1,
                  updates |-> es.log.updates + 1,
                  price |-> price,
                  before |-> es.st,
                  stats |-> res.stats,
                  last_sign |->
                      IF es.log.calls > 0
                         /\ Classified(es.st, es.log.stats)
                         /\ Sign(es.log.stats) # "none"
                        THEN Sign(es.log.stats)
                        ELSE es.log.last_sign]]

\* the price of the calls that fill the history before the updates
WarmUpPrice == Num(Rat(10, 1))

\* the lengths of the history at which the updates start: a fresh symbol, or
\* a history two below the limit
WarmUps == {0, HistoryLimit - 2}

EngineInit ==
    /\ stock_data = <<>>
    /\ current_index = 0
    /\ last_known_prices = LoadLastKnown
    /\ current_data = None
    /\ produced = <<>>
    /\ BroadcasterIdle
    /\ FeedIdle
    /\ EngineFresh
    /\ feed_len = 0
    /\ feed_msgs = {}
    /\ stalled = {}
    /\ sub_stalled = {}

\* the engine state and the record after the call es
EngineLeaves(s, es) ==
    /\ stock_prices' = [stock_prices EXCEPT ![s] = es.st.prices]
    /\ previous_emas_38' = [previous_emas_38 EXCEPT ![s] = es.st.ema38]
    /\ previous_emas_100' = [previous_emas_100 EXCEPT ![s] = es.st.ema100]
    /\ previous_states' = [previous_states EXCEPT ![s] = es.st.state]
    /\ engine_log' = es.log
    /\ UNCHANGED <<feed_vars, latest_tick_data, consumer_connections, sub_vars, sub_received>>
    /\ UNCHANGED <<ds_vars, bc_vars, env_vars, query_log>>

\* calculate_statistics(stock_id, WarmUpPrice) for the symbol s, before the
\* updates: the calls that fill the history
WarmUp(s) ==
    /\ engine_log.updates = 0
    /\ Len(stock_prices[s]) < HistoryLimit - 2
    /\ \E es \in {EngineCall([st |-> SymbolState(s), log |-> engine_log], WarmUpPrice)} :
           EngineLeaves(s, [es EXCEPT !.log.updates = 0])

\* calculate_statistics(stock_id, price) for the symbol s
Update(s, price) ==
    /\ engine_log.updates < MaxUpdates
    /\ engine_log.updates > 0 \/ Len(stock_prices[s]) \in WarmUps
    /\ Fits(previous_emas_38[s], price)
    /\ Fits(previous_emas_100[s], price)
    /\ \E es \in {EngineCall([st |-> SymbolState(s), log |-> engine_log], price)} :
           EngineLeaves(s, es)

EngineNext ==
    \/ WarmUp(EngineSymbol)
    \/ \E price \in EnginePrices : Update(EngineSymbol, price)

EngineSpec == EngineInit /\ [][EngineNext]_vars

(***************************************************************************)
(* The last call of calculate_statistics, as the claims speak of it.       *)
(***************************************************************************)
Called == engine_log.calls > 0

\* the call was made with a valid price
ValidCall == Called /\ validate_float(engine_log.price) # None

\* the price of the call as sanitised by validate_float
SafePrice == validate_float(engine_log.price)

Before == engine_log.before

After == SymbolState(EngineSymbol)

Returned == engine_log.stats

\* the price is the first valid price of the symbol
FirstValid == ValidCall /\ Before.prices = <<>>

NoFlag == ~Returned.is_bullish_breakout /\ ~Returned.is_bearish_breakout

\* the EMAs, returned and stored, all equal the value v
EmasEqual(v) ==
    /\ Returned.ema38 = v
    /\ Returned.ema100 = v
    /\ After.ema38 = v
    /\ After.ema100 = v

(***************************************************************************)
(* C13, as stated.  After the first valid price p of a symbol the returned *)
(* and the stored ema38 and ema100 all equal p exactly.                    *)
(***************************************************************************)
C13_FirstPriceSetsEmasExactly ==
    FirstValid => EmasEqual(engine_log.price)

(***************************************************************************)
(* C13, amended.  After the first valid price p of a symbol, p = 0         *)
(* included, the returned and the stored ema38 and ema100 all equal p      *)
(* rounded to four decimals, which is p itself when p has at most four     *)
(* decimals.                                                               *)
(***************************************************************************)
C13_FirstPriceSetsEmasToSanitisedPrice ==
    FirstValid =>
        /\ EmasEqual(SafePrice)
        /\ SafePrice = Num(Round4(engine_log.price.val))
        /\ engine_log.price.val.d <= Scale /\ Scale % engine_log.price.val.d = 0
               => SafePrice = engine_log.price

\* the first valid price of the symbol was 0
C13_Witness ==
    /\ FirstValid
    /\ engine_log.price = Num(Zero)
    /\ EmasEqual(Num(Zero))

\* price * (2 / (1 + j)) + ema_prev * (1 - 2 / (1 + j))
EmaFormula(price, j, ema_prev) ==
    Num(RatAdd(RatMul(price.val, Rat(2, 1 + j)),
               RatMul(ema_prev.val, RatSub(Rat(1, 1), Rat(2, 1 + j)))))

(***************************************************************************)
(* C14.  A valid price (as sanitised) that is not the first valid price of *)
(* its symbol updates each stored EMA by the formula from its own stored   *)
(* previous value, whatever that value is, 0 included.                     *)
(***************************************************************************)
C14_LaterPricesFollowTheFormula ==
    (ValidCall /\ ~FirstValid) =>
        /\ After.ema38 = EmaFormula(SafePrice, Period38, Before.ema38)
        /\ After.ema100 = EmaFormula(SafePrice, Period100, Before.ema100)

(***************************************************************************)
(* C15.  The prices 10, 12, 11 fed to a fresh symbol return the ema38      *)
(* 10, then 10.1026, then 10.1486; the stored EMA is carried unrounded     *)
(* (394/39, then 15436/1521).                                              *)
(***************************************************************************)
C15_WorkedExample ==
    ValidCall =>
        /\ After.prices = <<Num(Rat(10, 1))>> =>
               Returned.ema38 = Num(Rat(10, 1)) /\ After.ema38 = Num(Rat(10, 1))
        /\ After.prices = <<Num(Rat(10, 1)), Num(Rat(12, 1))>> =>
               Returned.ema38 = Num(Rat(101026, 10000)) /\ After.ema38 = Num(Rat(394, 39))
        /\ After.prices = <<Num(Rat(10, 1)), Num(Rat(12, 1)), Num(Rat(11, 1))>> =>
               Returned.ema38 = Num(Rat(101486, 10000)) /\ After.ema38 = Num(Rat(15436, 1521))

C15_Witness ==
    /\ ValidCall
    /\ After.prices = <<Num(Rat(10, 1)), Num(Rat(12, 1)), Num(Rat(11, 1))>>
    /\ Returned.ema38 = Num(Rat(101486, 10000))

(***************************************************************************)
(* C16.  The update that classifies the crossover relationship of a symbol *)
(* for the first time sets neither breakout flag, and so does every update *)
(* before which no relationship other than equality has been classified.   *)
(***************************************************************************)
C16_NoSignalOnFirstClassification ==
    /\ (ValidCall /\ Before.state = "absent" /\ After.state # "absent") => NoFlag
    /\ (ValidCall /\ engine_log.last_sign = "none") => NoFlag

\* a first classification that found the short EMA above the long one
C16_Witness ==
    /\ ValidCall
    /\ Before.state = "absent"
    /\ After.state = "bullish"
    /\ NoFlag

(***************************************************************************)
(* C17.  Once the crossover evaluation of a symbol has begun, an update    *)
(* sets the bullish flag exactly when the short EMA is above the long one  *)
(* and the last relationship other than equality classified before was     *)
(* bearish, and the bearish flag exactly in the mirrored case, also when   *)
(* updates with equal EMAs lie in between.                                 *)
(***************************************************************************)
C17_SignalExactlyOnSignChange ==
    (ValidCall /\ Before.state # "absent") =>
        /\ Returned.is_bullish_breakout <=>
               (Sign(Returned) = "bullish" /\ engine_log.last_sign = "bearish")
        /\ Returned.is_bearish_breakout <=>
               (Sign(Returned) = "bearish" /\ engine_log.last_sign = "bullish")

(***************************************************************************)
(* C18.  The price history of a symbol never has more than 100 prices, and *)
(* a valid price that arrives when it has 100 evicts the oldest one.       *)
(***************************************************************************)
C18_HistoryBounded ==
    /\ \A s \in FeedSymbols : Len(stock_prices[s]) <= HistoryLimit
    /\ (ValidCall /\ Len(Before.prices) = HistoryLimit) =>
           After.prices = Append(Tail(Before.prices), SafePrice)

\* a valid price arrived at a full history whose oldest price differs from
\* its newest
C18_Witness ==
    /\ ValidCall
    /\ Len(Before.prices) = HistoryLimit
    /\ Before.prices[1] # Before.prices[HistoryLimit]
    /\ Len(After.prices) = HistoryLimit

(***************************************************************************)
(* C19.  A call with an absent or non-finite price returns an entry whose  *)
(* current_price, EMAs and price changes are null and whose                *)
(* samples_collected is the count before the call, and leaves the history, *)
(* both stored EMAs and the stored relationship as they were.              *)
(***************************************************************************)
C19_InvalidPriceChangesNothing ==
    (Called /\ ~ValidCall) =>
        /\ Returned.current_price = None
        /\ Returned.ema38 = None
        /\ Returned.ema100 = None
        /\ Returned.price_change = None
        /\ Returned.price_change_percent = None
        /\ Returned.samples_collected = Len(Before.prices)
        /\ After = Before

\* an infinite price arrived after the symbol had collected samples
C19_Witness ==
    /\ Called
    /\ engine_log.price = Inf
    /\ Len(Before.prices) > 0
    /\ Returned.current_price = None

(***************************************************************************)
(* C20.  On the first and the second valid sample of a symbol both         *)
(* breakout flags are false and the stored relationship is not written.    *)
(***************************************************************************)
C20_NoEvaluationBeforeThirdSample ==
    (ValidCall /\ Len(After.prices) <= 2) =>
        /\ NoFlag
        /\ After.state = Before.state
        /\ After.state = "absent"

\* the second valid sample, with EMAs that differ
C20_Witness ==
    /\ ValidCall
    /\ Len(After.prices) = 2
    /\ Sign(Returned) # "none"
    /\ After.state = "absent"

\* the sample before the one the call appended
Preceding == After.prices[Len(After.prices) - 1]

(***************************************************************************)
(* C21.  The entry of a valid price has price_change and                   *)
(* price_change_percent exactly if the symbol has at least two samples and *)
(* the sample before the current one is not 0; then price_change is the    *)
(* current price minus that sample and price_change_percent is that change *)
(* divided by that sample times 100, both as returned, rounded to four     *)
(* decimals like every output; otherwise both are absent.                  *)
(***************************************************************************)
C21_PriceChangeAgainstPrecedingSample ==
    ValidCall =>
        IF Len(After.prices) >= 2 /\ Preceding # Num(Zero)
          THEN /\ Returned.price_change =
                      Num(Round4(RatSub(SafePrice.val, Preceding.val)))
               /\ Returned.price_change_percent =
                      Num(Round4(RatMul(RatDiv(RatSub(SafePrice.val, Preceding.val),
                                               Preceding.val),
                                        Rat(100, 1))))
          ELSE /\ Returned.price_change = None
               /\ Returned.price_change_percent = None

\* the price 11 after the prices 10 and 12: the change -1 and -8.3333 percent
C21_Witness ==
    /\ ValidCall
    /\ After.prices = <<Num(Rat(10, 1)), Num(Rat(12, 1)), Num(Rat(11, 1))>>
    /\ Returned.price_change = Num(Rat(-1, 1))
    /\ Returned.price_change_percent = Num(Rat(-83333, 10000))

(***************************************************************************)
(* C26.  After every update that evaluates the crossover (a valid price    *)
(* from the third sample on) the stored relationship is the classification *)
(* of the returned, rounded EMAs: bullish if ema38 > ema100, bearish if    *)
(* ema38 < ema100, unknown if they are equal, whatever was stored before.  *)
(***************************************************************************)
C26_StoredRelationshipIsCurrentClassification ==
    (ValidCall /\ Len(After.prices) > MinSamples) =>
        After.state = IF RatLess(Returned.ema100.val, Returned.ema38.val) THEN "bullish"
                      ELSE IF RatLess(Returned.ema38.val, Returned.ema100.val) THEN "bearish"
                      ELSE "none"

\* an update with equal EMAs has overwritten a stored bullish relationship
C26_Witness ==
    /\ ValidCall
    /\ Before.state = "bullish"
    /\ Returned.ema38 = Returned.ema100
    /\ After.state = "none"


=============================================================================
